---------------------------- MODULE Spec2Model ----------------------------
(***************************************************************************)
(* Model of the Nikkei-225 CFD order-ladder risk calculator:               *)
(*   src/src/validator.py   InputValidator                                  *)
(*   src/src/calculator.py  RiskCalculator                                  *)
(*   src/src/models.py      OrderRange / OrderEntry / RiskAnalysis          *)
(*                                                                         *)
(* Representation of numbers.  Prices, step widths and loss-cut figures    *)
(* are Python ints and are modelled as integers.  quantity is a Python     *)
(* float; it is modelled as an integer number of hundredths (0.1 is 10,    *)
(* 0.15 is 15, 100.0 is 10000), so that the one-decimal-digit test of      *)
(* validate_quantity can fail.  The float money fields (required_margin,   *)
(* optional_margin, profit_loss and their totals) are products of an int   *)
(* and quantity, hence are carried in hundredths of a yen.  Float rounding *)
(* is not modelled.                                                        *)
(*                                                                         *)
(* order_type.  calculator.py reads order_range.order_type (line 22) and   *)
(* passes order_type= to RiskAnalysis (line 123), and test_order_types.py  *)
(* reads analysis.order_type; the dataclasses in src/src/models.py declare *)
(* no such field.  The records below carry the field the calculator reads  *)
(* and writes.  The model of the GUI handler covers both builds: the one   *)
(* with the dataclasses as they are, where the read of line 22 raises      *)
(* AttributeError, and the one where the attribute exists.                 *)
(*                                                                         *)
(* Texts.  A text typed into a QLineEdit is a sequence of one-character    *)
(* strings; "yen" stands for the character U+5186.  A formatted string is  *)
(* the pair of its format and the number it prints.                        *)
(***************************************************************************)
EXTENDS Integers, Sequences, FiniteSets, TLC

VARIABLES order_range, validation, outcome, max_loss

(* MainWindow: the texts of the seven QLineEdits, the summary QTextEdit,   *)
(* the rows of the order QTableWidget; the stages the last run of          *)
(* calculate_risk went through and the message boxes it showed; and        *)
(* whether the dataclasses of the build declare the order_type attribute.  *)
VARIABLES line_edits, summary_text, order_table, calls, message_boxes, order_type_declared

calc_vars == <<order_range, validation, outcome, max_loss>>

gui_vars == <<line_edits, summary_text, order_table, calls, message_boxes, order_type_declared>>

vars == <<order_range, validation, outcome, max_loss, line_edits, summary_text, order_table, calls, message_boxes, order_type_declared>>

---------------------------------------------------------------------------
(* constants.py *)
ORDER_TYPE_BUY == "BUY"
ORDER_TYPE_SELL == "SELL"
DEFAULT_LOSS_CUT_WIDTH == 2139
DEFAULT_QUANTITY == 10

(* Python's None *)
None == "None"

(* InputValidator class constants (quantities in hundredths) *)
MIN_PRICE == 10000
MAX_PRICE == 100000
MIN_ORDER_AMOUNT == 100
MAX_ORDER_AMOUNT == 50000
MIN_QUANTITY == 10
MAX_QUANTITY == 10000

(* RiskCalculator.LEVERAGE *)
LEVERAGE == 10

---------------------------------------------------------------------------
(* Bounds of the explored inputs *)
Tick == 50
MaxTicks == 6
MidTicks == 3
MaxStepTicks == 5

abs(x) == IF x < 0 THEN -x ELSE x

(* Mutant of max: the floor at zero is lost. *)
max_unfloored(a, b) == b

max(a, b) == IF a >= b THEN a ELSE b

---------------------------------------------------------------------------
(* InputValidator *)

Valid == [is_valid |-> TRUE, error_msg |-> None]

Invalid(msg) == [is_valid |-> FALSE, error_msg |-> msg]

validate_price_range(start_price, end_price) ==
    IF start_price < MIN_PRICE THEN Invalid("start_price below MIN_PRICE")
    ELSE IF start_price > MAX_PRICE THEN Invalid("start_price above MAX_PRICE")
    ELSE IF end_price < MIN_PRICE THEN Invalid("end_price below MIN_PRICE")
    ELSE IF end_price > MAX_PRICE THEN Invalid("end_price above MAX_PRICE")
    ELSE IF start_price = end_price THEN Invalid("start_price and end_price must differ")
    ELSE LET price_diff == abs(end_price - start_price) IN
         IF price_diff < 100 THEN Invalid("price range below 100")
         ELSE IF price_diff > 20000 THEN Invalid("price range above 20000")
         ELSE Valid

(* Mutant of validate_order_amount: no upper limit. *)
validate_order_amount_no_max(order_amount) ==
    IF order_amount < MIN_ORDER_AMOUNT THEN Invalid("order_amount below MIN_ORDER_AMOUNT")
    ELSE Valid

(* Mutant of validate_order_amount: no lower limit. *)
validate_order_amount_no_min(order_amount) ==
    IF order_amount > MAX_ORDER_AMOUNT THEN Invalid("order_amount above MAX_ORDER_AMOUNT")
    ELSE Valid

validate_order_amount(order_amount) ==
    IF order_amount < MIN_ORDER_AMOUNT THEN Invalid("order_amount below MIN_ORDER_AMOUNT")
    ELSE IF order_amount > MAX_ORDER_AMOUNT THEN Invalid("order_amount above MAX_ORDER_AMOUNT")
    ELSE Valid

(* Mutant of validate_quantity: the quantity is not checked. *)
validate_quantity_unchecked(quantity) == Valid

(* round(quantity * 10) != quantity * 10: quantity has more than one       *)
(* decimal digit, i.e. its hundredths are not a multiple of ten.           *)
validate_quantity(quantity) ==
    IF quantity < MIN_QUANTITY THEN Invalid("quantity below MIN_QUANTITY")
    ELSE IF quantity > MAX_QUANTITY THEN Invalid("quantity above MAX_QUANTITY")
    ELSE IF quantity % 10 # 0 THEN Invalid("quantity has more than one decimal digit")
    ELSE Valid

(* Mutant of validate_order_count: a step wider than the range is let through. *)
validate_order_count_accepting(start_price, end_price, order_amount) ==
    LET price_range == abs(end_price - start_price)
        estimated_orders == (price_range + order_amount - 1) \div order_amount
    IN  IF estimated_orders > 1000 THEN Invalid("too many orders") ELSE Valid

(* The last two checks of validate_all_inputs: the step against the price *)
(* range and the estimated number of orders.                              *)
validate_order_count(start_price, end_price, order_amount) ==
    LET price_range == abs(end_price - start_price)
        estimated_orders == (price_range + order_amount - 1) \div order_amount
    IN  IF order_amount > price_range
        THEN Invalid("order_amount above price range: single order only")
        ELSE IF estimated_orders > 1000 THEN Invalid("too many orders")
        ELSE Valid

(* Mutant of validate_all_inputs: the quantity is checked before the step. *)
validate_all_inputs_reordered(start_price, end_price, order_amount, quantity, current_price, loss_cut_rate, loss_cut_width) ==
    LET r1 == validate_price_range(start_price, end_price)
        r2 == validate_order_amount(order_amount)
        r3 == validate_quantity(quantity)
    IN  IF ~r1.is_valid THEN r1
        ELSE IF ~r3.is_valid THEN r3
        ELSE IF ~r2.is_valid THEN r2
        ELSE IF current_price <= 0 THEN Invalid("current_price must be positive")
        ELSE IF current_price < MIN_PRICE \/ current_price > MAX_PRICE
             THEN Invalid("current_price outside MIN_PRICE..MAX_PRICE")
        ELSE IF loss_cut_rate <= 0 THEN Invalid("loss_cut_rate must be positive")
        ELSE IF loss_cut_rate < MIN_PRICE \/ loss_cut_rate > MAX_PRICE
             THEN Invalid("loss_cut_rate outside MIN_PRICE..MAX_PRICE")
        ELSE IF loss_cut_width <= 0 THEN Invalid("loss_cut_width must be positive")
        ELSE IF loss_cut_width > 10000 THEN Invalid("loss_cut_width above 10000")
        ELSE validate_order_count(start_price, end_price, order_amount)

(* Mutant of validate_all_inputs: only the two ladder prices are checked. *)
validate_all_inputs_prices_only(start_price, end_price, order_amount, quantity, current_price, loss_cut_rate, loss_cut_width) ==
    validate_price_range(start_price, end_price)

validate_all_inputs(start_price, end_price, order_amount, quantity, current_price, loss_cut_rate, loss_cut_width) ==
    LET r1 == validate_price_range(start_price, end_price)
        r2 == validate_order_amount(order_amount)
        r3 == validate_quantity(quantity)
    IN  IF ~r1.is_valid THEN r1
        ELSE IF ~r2.is_valid THEN r2
        ELSE IF ~r3.is_valid THEN r3
        ELSE IF current_price <= 0 THEN Invalid("current_price must be positive")
        ELSE IF current_price < MIN_PRICE \/ current_price > MAX_PRICE
             THEN Invalid("current_price outside MIN_PRICE..MAX_PRICE")
        ELSE IF loss_cut_rate <= 0 THEN Invalid("loss_cut_rate must be positive")
        ELSE IF loss_cut_rate < MIN_PRICE \/ loss_cut_rate > MAX_PRICE
             THEN Invalid("loss_cut_rate outside MIN_PRICE..MAX_PRICE")
        ELSE IF loss_cut_width <= 0 THEN Invalid("loss_cut_width must be positive")
        ELSE IF loss_cut_width > 10000 THEN Invalid("loss_cut_width above 10000")
        ELSE validate_order_count(start_price, end_price, order_amount)

---------------------------------------------------------------------------
(* RiskCalculator *)

(* Mutant of _determine_order_type: the explicit order_type is ignored. *)
_determine_order_type_inferred_only(o) ==
    IF o.start_price < o.end_price THEN ORDER_TYPE_BUY ELSE ORDER_TYPE_SELL

_determine_order_type(o) ==
    IF o.order_type # None THEN o.order_type
    ELSE IF o.start_price < o.end_price THEN ORDER_TYPE_BUY ELSE ORDER_TYPE_SELL

(* Mutant of _create_order_entry: the BUY and SELL formulas are exchanged. *)
_create_order_entry_swapped(order_price, order_amount, quantity, current_price, loss_cut_rate, loss_cut_width, order_type) ==
    [price |-> order_price,
     amount |-> order_amount,
     quantity |-> quantity,
     required_margin |-> order_price * quantity,
     optional_margin |->
         IF order_type = ORDER_TYPE_BUY
         THEN max(0, (loss_cut_rate + loss_cut_width - order_price) * quantity * LEVERAGE)
         ELSE max(0, (order_price - loss_cut_width - loss_cut_rate) * quantity * LEVERAGE),
     profit_loss |->
         IF order_type = ORDER_TYPE_BUY
         THEN (order_price - current_price) * quantity * LEVERAGE
         ELSE (current_price - order_price) * quantity * LEVERAGE]

_create_order_entry(order_price, order_amount, quantity, current_price, loss_cut_rate, loss_cut_width, order_type) ==
    LET required_margin == order_price * quantity
        optional_margin ==
            IF order_type = ORDER_TYPE_BUY
            THEN max(0, (order_price - loss_cut_width - loss_cut_rate) * quantity * LEVERAGE)
            ELSE max(0, (loss_cut_rate + loss_cut_width - order_price) * quantity * LEVERAGE)
        profit_loss ==
            IF order_type = ORDER_TYPE_BUY
            THEN (current_price - order_price) * quantity * LEVERAGE
            ELSE (order_price - current_price) * quantity * LEVERAGE
    IN  [price |-> order_price,
         amount |-> order_amount,
         quantity |-> quantity,
         required_margin |-> required_margin,
         optional_margin |-> optional_margin,
         profit_loss |-> profit_loss]

(* The candidate price of rung i and the test that ends the loop there. *)
order_price_at(o, order_type, i) ==
    IF order_type = ORDER_TYPE_BUY
    THEN o.start_price + (i * o.order_amount)
    ELSE o.start_price - (i * o.order_amount)

loop_breaks(o, order_type, order_price) ==
    IF order_type = ORDER_TYPE_BUY
    THEN order_price >= o.end_price
    ELSE order_price <= o.end_price

(* for i in range(num_orders): ... break ... order_entries.append(...)     *)
(* The loop appends one entry for every i before the first i whose price    *)
(* meets the break test, or for all of range(num_orders) when none does.    *)
generate_orders(o, order_type, num_orders) ==
    LET breaks_at(i) == loop_breaks(o, order_type, order_price_at(o, order_type, i))
        iterations == 0..(num_orders - 1)
        appended ==
            IF \E i \in iterations : breaks_at(i)
            THEN CHOOSE i \in iterations :
                     breaks_at(i) /\ \A j \in 0..(i - 1) : ~breaks_at(j)
            ELSE num_orders
    IN  [k \in 1..appended |->
            _create_order_entry(order_price_at(o, order_type, k - 1), o.order_amount,
                                o.quantity, o.current_price, o.loss_cut_rate,
                                o.loss_cut_width, order_type)]

(* Mutant of is_single_order: the single-order branch is never taken. *)
is_single_order_never(o, price_range) == FALSE

is_single_order(o, price_range) == o.order_amount > price_range

(* Mutant of num_orders_of: the division rounds down. *)
num_orders_floor(o, price_range) == price_range \div o.order_amount

num_orders_of(o, price_range) == (price_range + o.order_amount - 1) \div o.order_amount

build_order_entries(o, order_type) ==
    LET price_range == abs(o.end_price - o.start_price) IN
    IF is_single_order(o, price_range)
    THEN << _create_order_entry(o.start_price, o.order_amount, o.quantity,
                                o.current_price, o.loss_cut_rate,
                                o.loss_cut_width, order_type) >>
    ELSE generate_orders(o, order_type, num_orders_of(o, price_range))

(* sum(entry.<field> for entry in order_entries), starting from 0.  The   *)
(* terms are exact integers here, so they are added by halves of the list  *)
(* to keep the evaluation shallow on ladders of hundreds of rungs.         *)
RECURSIVE sum_between(_, _, _, _)
sum_between(order_entries, f, lo, hi) ==
    IF lo > hi THEN 0
    ELSE IF lo = hi THEN order_entries[lo][f]
    ELSE LET mid == (lo + hi) \div 2
         IN  sum_between(order_entries, f, lo, mid)
                 + sum_between(order_entries, f, mid + 1, hi)

sum_field(order_entries, f) == sum_between(order_entries, f, 1, Len(order_entries))

(* Mutant of total_margin_of: the optional margin is left out. *)
total_margin_required_only(total_required_margin, total_optional_margin) ==
    total_required_margin

total_margin_of(total_required_margin, total_optional_margin) ==
    total_required_margin + total_optional_margin

make_analysis(order_entries, order_type) ==
    LET total_required_margin == sum_field(order_entries, "required_margin")
        total_optional_margin == sum_field(order_entries, "optional_margin")
    IN  [total_orders |-> Len(order_entries),
         total_amount |-> sum_field(order_entries, "amount"),
         total_required_margin |-> total_required_margin,
         total_optional_margin |-> total_optional_margin,
         total_margin |-> total_margin_of(total_required_margin, total_optional_margin),
         total_profit_loss |-> sum_field(order_entries, "profit_loss"),
         order_list |-> order_entries,
         order_type |-> order_type]

Raised(msg) == [kind |-> "raised", error |-> msg]

Returned(analysis) == [kind |-> "returned", analysis |-> analysis]

(* Mutant of calculate_orders: the quantity is tested before the step. *)
calculate_orders_reordered(o) ==
    LET order_type == _determine_order_type(o) IN
    IF o.start_price = o.end_price THEN Raised("start_price and end_price must differ")
    ELSE IF o.quantity < 10 THEN Raised("quantity must be at least 0.1")
    ELSE IF o.order_amount <= 0 THEN Raised("order_amount must be positive")
    ELSE IF o.current_price <= 0 THEN Raised("current_price must be positive")
    ELSE IF o.loss_cut_rate <= 0 THEN Raised("loss_cut_rate must be positive")
    ELSE IF o.loss_cut_width <= 0 THEN Raised("loss_cut_width must be positive")
    ELSE Returned(make_analysis(build_order_entries(o, order_type), order_type))

calculate_orders(o) ==
    LET order_type == _determine_order_type(o) IN
    IF o.start_price = o.end_price THEN Raised("start_price and end_price must differ")
    ELSE IF o.order_amount <= 0 THEN Raised("order_amount must be positive")
    ELSE IF o.quantity < 10 THEN Raised("quantity must be at least 0.1")
    ELSE IF o.current_price <= 0 THEN Raised("current_price must be positive")
    ELSE IF o.loss_cut_rate <= 0 THEN Raised("loss_cut_rate must be positive")
    ELSE IF o.loss_cut_width <= 0 THEN Raised("loss_cut_width must be positive")
    ELSE Returned(make_analysis(build_order_entries(o, order_type), order_type))

(* Mutant of min_price_of: the first rung's price is taken for the lowest. *)
min_price_first(order_list) == order_list[1].price

(* min(entry.price for entry in order_list), for a non-empty list *)
min_price_of(order_list) ==
    CHOOSE p \in {order_list[i].price : i \in 1..Len(order_list)} :
        \A i \in 1..Len(order_list) : p <= order_list[i].price

(* for entry in analysis.order_list: max_loss += (entry.price - min_price) * loss_per_point *)
RECURSIVE accumulate_loss(_, _, _, _)
accumulate_loss(order_list, min_price, loss_per_point, max_loss_so_far) ==
    IF order_list = << >> THEN max_loss_so_far
    ELSE LET price_diff == order_list[1].price - min_price
             position_loss == price_diff * loss_per_point
         IN  accumulate_loss(Tail(order_list), min_price, loss_per_point,
                             max_loss_so_far + position_loss)

calculate_max_loss_scenario(analysis, loss_per_point) ==
    IF analysis.order_list = << >> THEN 0
    ELSE accumulate_loss(analysis.order_list, min_price_of(analysis.order_list),
                         loss_per_point, 0)

---------------------------------------------------------------------------
(* Inputs the caller may construct *)

StartPrices == {MIN_PRICE - Tick, MIN_PRICE, MIN_PRICE + MidTicks * Tick}

EndPrices == {MIN_PRICE + k * Tick : k \in -1..MaxTicks}

OrderAmounts == {k * Tick : k \in -1..MaxStepTicks} \cup {MAX_ORDER_AMOUNT + Tick}

Quantities == {5, DEFAULT_QUANTITY, 15, 2 * DEFAULT_QUANTITY}

CurrentPrices == {0, MIN_PRICE - Tick, MIN_PRICE, MIN_PRICE + (MaxTicks + 1) * Tick}

LossCutRates == {0, MIN_PRICE - Tick, MIN_PRICE}

LossCutWidths == {0, 2 * Tick, DEFAULT_LOSS_CUT_WIDTH, 10000 + Tick}

OrderTypes == {None, ORDER_TYPE_BUY, ORDER_TYPE_SELL}

OrderRange ==
    [start_price : StartPrices, end_price : EndPrices, order_amount : OrderAmounts,
     quantity : Quantities, current_price : CurrentPrices,
     loss_cut_rate : LossCutRates, loss_cut_width : LossCutWidths,
     order_type : OrderTypes]

NotCalled == [kind |-> "none"]

---------------------------------------------------------------------------
(* The caller: construct an OrderRange, then validate it and/or calculate *)

(* text(), summary and table of a MainWindow after init_ui *)
DefaultTexts ==
    [start_price |-> << >>, end_price |-> << >>, order_amount |-> << >>,
     quantity |-> <<"0", ".", "1">>, current_price |-> << >>,
     loss_cut_rate |-> << >>, loss_cut_width |-> <<"2", "1", "3", "9">>]

WindowCreated ==
    /\ line_edits = DefaultTexts
    /\ summary_text = << >>
    /\ order_table = << >>
    /\ calls = << >>
    /\ message_boxes = << >>

Init ==
    /\ order_range \in OrderRange
    /\ validation = NotCalled
    /\ outcome = NotCalled
    /\ max_loss = NotCalled
    /\ WindowCreated
    /\ order_type_declared = TRUE

Validate ==
    /\ validation = NotCalled
    /\ validation' = [kind |-> "done",
                      result |-> validate_all_inputs(
                          order_range.start_price, order_range.end_price,
                          order_range.order_amount, order_range.quantity,
                          order_range.current_price, order_range.loss_cut_rate,
                          order_range.loss_cut_width)]
    /\ UNCHANGED <<order_range, outcome, max_loss>>
    /\ UNCHANGED gui_vars

Calculate ==
    /\ outcome = NotCalled
    /\ outcome' = calculate_orders(order_range)
    /\ UNCHANGED <<order_range, validation, max_loss>>
    /\ UNCHANGED gui_vars

Next == Validate \/ Calculate

Spec == Init /\ [][Next]_vars

(* Inputs over the whole width of the validator's limits.  The GUI's order *)
(* of calls: validate_all_inputs first, calculate_orders once it accepted. *)
WideStartPrices ==
    {MIN_PRICE - Tick, MIN_PRICE, MIN_PRICE + 2 * Tick, MAX_PRICE, MAX_PRICE + Tick}

WideEndPrices ==
    {MIN_PRICE - Tick, MIN_PRICE, MIN_PRICE + Tick, MIN_PRICE + 2 * Tick,
     MIN_PRICE + 20000, MIN_PRICE + 20000 + Tick, MAX_PRICE, MAX_PRICE + Tick}

WideOrderAmounts ==
    {-Tick, 0, 10, Tick, 2 * Tick, 3 * Tick, MAX_ORDER_AMOUNT, MAX_ORDER_AMOUNT + Tick}

WideQuantities == {5, DEFAULT_QUANTITY, 15, MAX_QUANTITY + 10}

WideCurrentPrices == {0, MIN_PRICE - Tick, MIN_PRICE, MAX_PRICE + Tick}

WideLossCutRates == {0, MIN_PRICE - Tick, MIN_PRICE, MAX_PRICE + Tick}

WideLossCutWidths == {0, 2 * Tick, 10000, 10000 + Tick}

WideOrderRange ==
    [start_price : WideStartPrices, end_price : WideEndPrices,
     order_amount : WideOrderAmounts, quantity : WideQuantities,
     current_price : WideCurrentPrices, loss_cut_rate : WideLossCutRates,
     loss_cut_width : WideLossCutWidths, order_type : OrderTypes]

InitWide ==
    /\ order_range \in WideOrderRange
    /\ validation = NotCalled
    /\ outcome = NotCalled
    /\ max_loss = NotCalled
    /\ WindowCreated
    /\ order_type_declared = TRUE

CalculateAccepted ==
    /\ validation.kind = "done"
    /\ validation.result.is_valid
    /\ Calculate

NextWide == Validate \/ CalculateAccepted

SpecWide == InitWide /\ [][NextWide]_vars

(* The caller asks for the max-loss scenario of a result it obtained *)
LossPerPoints == {-1, 0, 100}

MaxLossScenario ==
    /\ outcome.kind = "returned"
    /\ max_loss = NotCalled
    /\ \E loss_per_point \in LossPerPoints :
           max_loss' = [kind |-> "done",
                        loss_per_point |-> loss_per_point,
                        value |-> calculate_max_loss_scenario(outcome.analysis, loss_per_point)]
    /\ UNCHANGED <<order_range, validation, outcome>>
    /\ UNCHANGED gui_vars

NextMaxLoss == Calculate \/ MaxLossScenario

SpecMaxLoss == Init /\ [][NextMaxLoss]_vars

---------------------------------------------------------------------------
(* InputValidator.parse_price_input / parse_quantity_input *)

Digits == <<"0", "1", "2", "3", "4", "5", "6", "7", "8", "9">>

IsDigit(c) == \E d \in 1..10 : Digits[d] = c

DigitValue(c) == (CHOOSE d \in 1..10 : Digits[d] = c) - 1

(* str.strip(): the text between its first and last non-blank characters *)
strip(s) ==
    LET solid == {i \in 1..Len(s) : s[i] # " "}
        first == CHOOSE i \in solid : \A j \in solid : i <= j
        last == CHOOSE i \in solid : \A j \in solid : j <= i
    IN  IF solid = {} THEN << >> ELSE SubSeq(s, first, last)

(* str.replace(c, '') *)
remove_char(s, c) == SelectSeq(s, LAMBDA x : x # c)

(* The number a run of decimal digits denotes *)
RECURSIVE digits_value(_)
digits_value(ds) ==
    IF ds = << >> THEN 0
    ELSE 10 * digits_value(SubSeq(ds, 1, Len(ds) - 1)) + DigitValue(ds[Len(ds)])

AllDigits(ds) == \A i \in 1..Len(ds) : IsDigit(ds[i])

HasSign(s) == s # << >> /\ s[1] \in {"+", "-"}

Unsigned(s) == IF HasSign(s) THEN Tail(s) ELSE s

Signed(s, n) == IF HasSign(s) /\ s[1] = "-" THEN -n ELSE n

Parsed(value) == [success |-> TRUE, value |-> value, error |-> None]

ParseError == [success |-> FALSE, value |-> None, error |-> "invalid number"]

(* int(str): blanks around, an optional sign, then one or more digits *)
int_of_str(s) ==
    LET t == strip(s)
        body == Unsigned(t)
    IN  IF body # << >> /\ AllDigits(body) THEN Parsed(Signed(t, digits_value(body)))
        ELSE ParseError

parse_price_input(price_str) ==
    LET cleaned_str == strip(remove_char(remove_char(price_str, ","), "yen"))
    IN  int_of_str(cleaned_str)

(* float(str) in hundredths: blanks around, an optional sign, digits with  *)
(* an optional point, at least one digit in all.  The texts of the model   *)
(* carry at most two decimal places, whose float is exactly its number of  *)
(* hundredths; a longer fraction is outside the model's numbers.           *)
float_of_str(s) ==
    LET t == strip(s)
        body == Unsigned(t)
        points == {i \in 1..Len(body) : body[i] = "."}
        point == IF points = {} THEN Len(body) + 1 ELSE CHOOSE i \in points : TRUE
        whole == SubSeq(body, 1, point - 1)
        fraction == SubSeq(body, point + 1, Len(body))
        padded == SubSeq(fraction \o <<"0", "0">>, 1, 2)
    IN  IF /\ Cardinality(points) <= 1
           /\ AllDigits(whole) /\ AllDigits(fraction)
           /\ Len(whole) + Len(fraction) >= 1
           /\ Len(fraction) <= 2
        THEN Parsed(Signed(t, 100 * digits_value(whole) + digits_value(padded)))
        ELSE ParseError

parse_quantity_input(quantity_str) == float_of_str(strip(quantity_str))

---------------------------------------------------------------------------
(* CurrencyFormatter / ResultFormatter, RiskAnalysis properties *)

(* int(amount) of a float carried in hundredths: truncation towards zero *)
int_of_float(amount) ==
    IF amount >= 0 THEN amount \div 100 ELSE -((-amount) \div 100)

format_yen_of_int(amount) == <<"{:,}yen", amount>>

format_yen_of_float(amount) == <<"{:,}yen", int_of_float(amount)>>

format_profit_loss(amount) ==
    IF amount > 0 THEN <<"+{:,}yen", int_of_float(amount)>>
    ELSE IF amount < 0 THEN <<"{:,}yen", int_of_float(amount)>>
    ELSE <<"+-0yen", 0>>

format_number(number) == <<"{:,}", number>>

(* RiskAnalysis.average_price, as int(analysis.average_price) *)
average_price(analysis) ==
    IF analysis.order_list = << >> THEN 0
    ELSE sum_field(analysis.order_list, "price") \div Len(analysis.order_list)

(* RiskAnalysis.price_range *)
price_range(analysis) ==
    LET prices == {analysis.order_list[i].price : i \in 1..Len(analysis.order_list)}
        highest == CHOOSE p \in prices : \A q \in prices : q <= p
        lowest == CHOOSE p \in prices : \A q \in prices : p <= q
    IN  IF analysis.order_list = << >> THEN 0 ELSE highest - lowest

format_summary(analysis) ==
    << <<"header", <<"", 0>> >>,
       <<"total_orders", format_number(analysis.total_orders)>>,
       <<"total_amount", format_yen_of_int(analysis.total_amount)>>,
       <<"total_required_margin", format_yen_of_float(analysis.total_required_margin)>>,
       <<"total_optional_margin", format_yen_of_float(analysis.total_optional_margin)>>,
       <<"total_margin", format_yen_of_float(analysis.total_margin)>>,
       <<"total_profit_loss", format_profit_loss(analysis.total_profit_loss)>>,
       <<"average_price", format_yen_of_int(average_price(analysis))>>,
       <<"price_range", format_yen_of_int(price_range(analysis))>> >>

format_table_row(entry, index) ==
    << <<"str", index>>,
       format_yen_of_int(entry.price),
       format_yen_of_int(entry.amount),
       <<"str", entry.quantity>>,
       format_yen_of_float(entry.required_margin),
       format_yen_of_float(entry.optional_margin),
       format_profit_loss(entry.profit_loss) >>

---------------------------------------------------------------------------
(* MainWindow.calculate_risk *)

FieldNames ==
    <<"start_price", "end_price", "order_amount", "quantity", "current_price",
      "loss_cut_rate", "loss_cut_width">>

(* The parser calculate_risk applies to each field *)
parse_field(name, text) ==
    IF name = "quantity" THEN parse_quantity_input(text) ELSE parse_price_input(text)

(* What a run of the handler leaves behind *)
HandlerEnded(stages, messages, summary, table) ==
    [calls |-> stages, message_boxes |-> messages, summary_text |-> summary, order_table |-> table]

(* show_error(message); return *)
show_error(stages, message, summary, table) ==
    HandlerEnded(stages, <<message>>, summary, table)

(* display_results / update_table *)
display_results(stages, analysis) ==
    HandlerEnded(Append(stages, "display_results"), << >>,
                 format_summary(analysis),
                 [i \in 1..Len(analysis.order_list) |-> format_table_row(analysis.order_list[i], i)])

(* OrderRange(...) of lines 242-250: no order_type is passed *)
order_range_of(values) ==
    [start_price |-> values[1], end_price |-> values[2], order_amount |-> values[3],
     quantity |-> values[4], current_price |-> values[5], loss_cut_rate |-> values[6],
     loss_cut_width |-> values[7], order_type |-> None]

(* calculate_orders as the handler meets it: with the dataclasses of       *)
(* models.py as they are, the read of order_range.order_type raises.       *)
calculate_orders_of_build(o, declared) ==
    IF declared THEN calculate_orders(o)
    ELSE Raised("'OrderRange' object has no attribute 'order_type'")

(* Lines 252-258: calculate_orders, display_results, except Exception *)
run_calculation(values, stages, summary, table, declared) ==
    LET called == Append(stages, "calculate_orders")
        result == calculate_orders_of_build(order_range_of(values), declared)
    IN  IF result.kind = "raised"
        THEN show_error(called, "calculation error: " \o result.error, summary, table)
        ELSE display_results(called, result.analysis)

(* Mutant of run_validated: the calculation runs without the validation. *)
run_unvalidated(values, stages, summary, table, declared) ==
    run_calculation(values, stages, summary, table, declared)

(* Lines 233-258: validate_all_inputs, then the calculation *)
run_validated(values, stages, summary, table, declared) ==
    LET called == Append(stages, "validate_all_inputs")
        checked == validate_all_inputs(values[1], values[2], values[3], values[4], values[5], values[6], values[7])
    IN  IF ~checked.is_valid THEN show_error(called, checked.error_msg, summary, table)
        ELSE run_calculation(values, called, summary, table, declared)

(* Lines 197-231: the seven fields are parsed one after the other, from    *)
(* field i on; values are those parsed so far.                             *)
RECURSIVE parse_fields(_, _, _, _, _, _, _)
parse_fields(texts, i, values, stages, summary, table, declared) ==
    IF i > Len(FieldNames) THEN run_validated(values, stages, summary, table, declared)
    ELSE LET name == FieldNames[i]
             called == Append(stages, "parse " \o name)
             parsed == parse_field(name, texts[name])
         IN  IF ~parsed.success
             THEN show_error(called, name \o " input error: " \o parsed.error, summary, table)
             ELSE parse_fields(texts, i + 1, Append(values, parsed.value), called, summary, table, declared)

calculate_risk(edits, summary, table, declared) ==
    LET texts == [name \in DOMAIN edits |-> strip(edits[name])]
        called == <<"all fields present">>
    IN  IF \E name \in DOMAIN texts : texts[name] = << >>
        THEN show_error(called, "all fields are required", summary, table)
        ELSE parse_fields(texts, 1, << >>, called, summary, table, declared)

(* Texts the user may type into each field; clear_inputs brings back the   *)
(* empty text and the defaults.                                            *)
FieldTexts ==
    [start_price |->
         {<< >>, <<"1", "0", ",", "0", "0", "0">>, <<"1", "0", "x", "0", "0">>},
     end_price |->
         {<<"1", "0", "1", "0", "0", "yen">>, <<" ", "1", "0", "2", "0", "0", " ", "yen">>,
          <<"1", "0", "0", "0", "0">>},
     order_amount |->
         {<<"1", "0", "0">>, <<",">>},
     quantity |->
         {<<"0", ".", "1">>, <<"0", ",", "1">>, <<".", "1", "5">>},
     current_price |->
         {<<" ", " ">>, <<"+", "1", "0", "5", "0", "0">>, <<"-", "5">>},
     loss_cut_rate |->
         {<<"1", "0", "0", "0", "0">>, <<"9", ".", "5">>},
     loss_cut_width |->
         {<<"2", "1", "3", "9">>, <<"0">>}]

InitGui ==
    /\ order_range = None
    /\ validation = NotCalled
    /\ outcome = NotCalled
    /\ max_loss = NotCalled
    /\ WindowCreated
    /\ order_type_declared \in BOOLEAN

(* The user replaces the text of one field by another *)
EditField ==
    /\ \E name \in DOMAIN FieldTexts : \E text \in FieldTexts[name] \ {line_edits[name]} :
           line_edits' = [line_edits EXCEPT ![name] = text]
    /\ UNCHANGED <<summary_text, order_table, calls, message_boxes, order_type_declared>>
    /\ UNCHANGED calc_vars

(* The user clicks calculate_button *)
CalculateRisk ==
    /\ UNCHANGED <<line_edits, order_type_declared>>
    /\ UNCHANGED calc_vars
    /\ LET ended == calculate_risk(line_edits, summary_text, order_table, order_type_declared)
       IN  /\ calls' = ended.calls
           /\ message_boxes' = ended.message_boxes
           /\ summary_text' = ended.summary_text
           /\ order_table' = ended.order_table

(* The user clicks clear_button: clear_inputs *)
ClearInputs ==
    /\ line_edits' = DefaultTexts
    /\ summary_text' = << >>
    /\ order_table' = << >>
    /\ UNCHANGED <<calls, message_boxes, order_type_declared>>
    /\ UNCHANGED calc_vars

NextGui == EditField \/ CalculateRisk \/ ClearInputs

SpecGui == InitGui /\ [][NextGui]_vars

---------------------------------------------------------------------------
(* Vocabulary of the properties *)

Accepted == validation.kind = "done" /\ validation.result.is_valid

Rejected == validation.kind = "done" /\ ~validation.result.is_valid

HasReturned == outcome.kind = "returned"

HasRaised == outcome.kind = "raised"

priceRange == abs(order_range.end_price - order_range.start_price)

(* ceil(a / b) for a >= 0 and b > 0, without the code's rounding idiom *)
CeilDiv(a, b) == CHOOSE k \in (a \div b)..(a \div b + 1) : (k - 1) * b < a /\ a <= k * b

(* The direction asked for contradicts the order of the two prices. *)
ContraryOverride ==
    \/ order_range.order_type = ORDER_TYPE_BUY /\ order_range.start_price > order_range.end_price
    \/ order_range.order_type = ORDER_TYPE_SELL /\ order_range.start_price < order_range.end_price

(* Rules 1-6 of the validator, stated on the input *)
InPriceBand(p) == MIN_PRICE <= p /\ p <= MAX_PRICE

OtherRulesSatisfied ==
    /\ InPriceBand(order_range.start_price)
    /\ InPriceBand(order_range.end_price)
    /\ InPriceBand(order_range.current_price)
    /\ InPriceBand(order_range.loss_cut_rate)
    /\ order_range.start_price # order_range.end_price
    /\ 100 <= priceRange /\ priceRange <= 20000
    /\ MIN_ORDER_AMOUNT <= order_range.order_amount
    /\ order_range.order_amount <= MAX_ORDER_AMOUNT
    /\ MIN_QUANTITY <= order_range.quantity /\ order_range.quantity <= MAX_QUANTITY
    /\ order_range.quantity % 10 = 0
    /\ 0 < order_range.loss_cut_width /\ order_range.loss_cut_width <= 10000

---------------------------------------------------------------------------
C3_DegenerateAccepted ==
    (validation.kind = "done" /\ OtherRulesSatisfied
        /\ order_range.order_amount > priceRange)
    => validation.result.is_valid

(* C3 amended: such an input is rejected by validate_all_inputs, with the  *)
(* single-order reason.                                                    *)
C3_DegenerateRejected ==
    (validation.kind = "done" /\ OtherRulesSatisfied
        /\ order_range.order_amount > priceRange)
    => /\ ~validation.result.is_valid
       /\ validation.result.error_msg = "order_amount above price range: single order only"

C3_Witness ==
    /\ validation.kind = "done"
    /\ OtherRulesSatisfied
    /\ order_range.order_amount > priceRange
    /\ Rejected

SumOver(L, g(_)) ==
    LET partial[k \in 0..Len(L)] == IF k = 0 THEN 0 ELSE partial[k - 1] + g(L[k])
    IN  partial[Len(L)]

AsRequiredMargin(e) == e.price * e.quantity

AsOptionalMargin(e) == e.optional_margin

AsProfitLoss(e) == e.profit_loss

CalcConditions ==
    << [holds |-> order_range.start_price = order_range.end_price,
        reason |-> "start_price and end_price must differ"],
       [holds |-> order_range.order_amount <= 0,
        reason |-> "order_amount must be positive"],
       [holds |-> order_range.quantity < MIN_QUANTITY,
        reason |-> "quantity must be at least 0.1"],
       [holds |-> order_range.current_price <= 0,
        reason |-> "current_price must be positive"],
       [holds |-> order_range.loss_cut_rate <= 0,
        reason |-> "loss_cut_rate must be positive"],
       [holds |-> order_range.loss_cut_width <= 0,
        reason |-> "loss_cut_width must be positive"] >>

FirstHolding(conds) ==
    CHOOSE i \in 1..Len(conds) :
        conds[i].holds /\ \A j \in 1..(i - 1) : ~conds[j].holds

MirrorRange ==
    LET L == outcome.analysis.order_list
        first == L[1].price
        last == L[Len(L)].price
        beyond == IF outcome.analysis.order_type = ORDER_TYPE_BUY
                  THEN first - order_range.order_amount
                  ELSE first + order_range.order_amount
    IN  [order_range EXCEPT !.start_price = last, !.end_price = beyond,
                            !.order_type = None]

RungPrices(L) == {L[i].price : i \in 1..Len(L)}

LossAgainstLowest(L, loss_per_point) ==
    LET lowest == CHOOSE p \in RungPrices(L) : \A q \in RungPrices(L) : p <= q
        partial[k \in 0..Len(L)] ==
            IF k = 0 THEN 0 ELSE partial[k - 1] + (L[k].price - lowest) * loss_per_point
    IN  partial[Len(L)]

C16_WitnessEmpty ==
    /\ max_loss.kind = "done"
    /\ outcome.analysis.order_list = << >>
    /\ max_loss.value = 0

---------------------------------------------------------------------------
(* The validator's rules, stated on the input, each with its reasons *)

PriceReasons(field) == {field \o " below MIN_PRICE", field \o " above MAX_PRICE"}

BandReasons(field) ==
    {field \o " must be positive", field \o " outside MIN_PRICE..MAX_PRICE"}

RuleLadderPrices ==
    [violated |-> ~InPriceBand(order_range.start_price) \/ ~InPriceBand(order_range.end_price),
     reasons |-> PriceReasons("start_price") \cup PriceReasons("end_price")]

RuleCurrentPrice ==
    [violated |-> ~InPriceBand(order_range.current_price),
     reasons |-> BandReasons("current_price")]

RuleLossCutRate ==
    [violated |-> ~InPriceBand(order_range.loss_cut_rate),
     reasons |-> BandReasons("loss_cut_rate")]

RuleAllPrices ==
    [violated |-> RuleLadderPrices.violated \/ RuleCurrentPrice.violated
                      \/ RuleLossCutRate.violated,
     reasons |-> RuleLadderPrices.reasons \cup RuleCurrentPrice.reasons
                      \cup RuleLossCutRate.reasons]

RulePricesDiffer ==
    [violated |-> order_range.start_price = order_range.end_price,
     reasons |-> {"start_price and end_price must differ"}]

RuleRangeWidth ==
    [violated |-> priceRange < 100 \/ priceRange > 20000,
     reasons |-> {"price range below 100", "price range above 20000"}]

RuleStep ==
    [violated |-> order_range.order_amount < 100 \/ order_range.order_amount > 50000,
     reasons |-> {"order_amount below MIN_ORDER_AMOUNT", "order_amount above MAX_ORDER_AMOUNT"}]

RuleQuantity ==
    [violated |-> \/ order_range.quantity < 10
                  \/ order_range.quantity > 10000
                  \/ order_range.quantity % 10 # 0,
     reasons |-> {"quantity below MIN_QUANTITY", "quantity above MAX_QUANTITY",
                  "quantity has more than one decimal digit"}]

RuleLossCutWidth ==
    [violated |-> order_range.loss_cut_width <= 0 \/ order_range.loss_cut_width > 10000,
     reasons |-> {"loss_cut_width must be positive", "loss_cut_width above 10000"}]

estimatedOrders == CeilDiv(priceRange, order_range.order_amount)

RuleOrderCount ==
    [violated |-> \/ order_range.order_amount > priceRange
                  \/ (order_range.order_amount > 0 /\ estimatedOrders > 1000),
     reasons |-> {"order_amount above price range: single order only", "too many orders"}]

(* The result is that of the lowest-numbered violated rule of the list *)
FollowsOrder(rules) ==
    LET violated == {i \in 1..Len(rules) : rules[i].violated}
        lowest == CHOOSE i \in violated : \A j \in violated : i <= j
        r == validation.result
    IN  /\ r.is_valid <=> violated = {}
        /\ r.is_valid => r.error_msg = None
        /\ ~r.is_valid => r.error_msg # None /\ r.error_msg \in rules[lowest].reasons

(* C12 as stated: the checks run in the order (1) price bounds of the four *)
(* prices, (2) prices differ, (3) range width, (4) step bounds,            *)
(* (5) quantity, (6) loss_cut_width, (7) combinatorial guard, and the      *)
(* reason returned is that of the lowest-numbered violated rule.           *)
C12_ClaimedOrder ==
    validation.kind = "done" =>
        FollowsOrder(<< RuleAllPrices, RulePricesDiffer, RuleRangeWidth, RuleStep,
                        RuleQuantity, RuleLossCutWidth, RuleOrderCount >>)

(* C12 amended: the checks run in the order (1) price bounds of            *)
(* start_price and end_price, (2) prices differ, (3) range width,          *)
(* (4) step bounds, (5) quantity, (6) price bounds of current_price,       *)
(* (7) price bounds of loss_cut_rate, (8) loss_cut_width,                  *)
(* (9) combinatorial guard; the reason returned is that of the             *)
(* lowest-numbered violated rule, and the result is either valid with no   *)
(* reason or invalid with exactly one reason.                              *)
C12_CodeOrder ==
    validation.kind = "done" =>
        FollowsOrder(<< RuleLadderPrices, RulePricesDiffer, RuleRangeWidth, RuleStep,
                        RuleQuantity, RuleCurrentPrice, RuleLossCutRate,
                        RuleLossCutWidth, RuleOrderCount >>)

(* Equal ladder prices together with a current price out of its band *)
C12_Witness ==
    /\ Rejected
    /\ RulePricesDiffer.violated
    /\ RuleCurrentPrice.violated
    /\ ~RuleLadderPrices.violated
    /\ validation.result.error_msg = "start_price and end_price must differ"

(* C13: validate_all_inputs rejects every input that breaks an integer     *)
(* range rule (a price outside [10000, 100000], equal ladder prices, a     *)
(* range width outside [100, 20000], a step outside [100, 50000], a        *)
(* loss_cut_width outside (0, 10000]); a step out of range with every      *)
(* other input in range is rejected with a step-range reason, which is not *)
(* the equal-prices reason.                                                *)
C13_RangeRulesReject ==
    validation.kind = "done" =>
        /\ (RuleAllPrices.violated \/ RulePricesDiffer.violated \/ RuleRangeWidth.violated
               \/ RuleStep.violated \/ RuleLossCutWidth.violated)
           => ~validation.result.is_valid
        /\ (RuleStep.violated /\ ~RuleAllPrices.violated /\ ~RulePricesDiffer.violated
               /\ ~RuleRangeWidth.violated /\ ~RuleQuantity.violated
               /\ ~RuleLossCutWidth.violated)
           => /\ validation.result.error_msg \in RuleStep.reasons
              /\ validation.result.error_msg \notin RulePricesDiffer.reasons

(* A step above MAX_ORDER_AMOUNT, everything else in range *)
C13_Witness ==
    /\ Rejected
    /\ order_range.order_amount > MAX_ORDER_AMOUNT
    /\ ~RuleAllPrices.violated /\ ~RulePricesDiffer.violated /\ ~RuleRangeWidth.violated
    /\ ~RuleQuantity.violated /\ ~RuleLossCutWidth.violated
    /\ validation.result.error_msg = "order_amount above MAX_ORDER_AMOUNT"

C15_WitnessLadder ==
    /\ Accepted
    /\ HasReturned
    /\ Len(outcome.analysis.order_list) = 200

(* C18: the too-many-orders rejection is unreachable: whenever             *)
(* validate_all_inputs gets as far as its last two checks (it accepts, or  *)
(* rejects with one of their reasons), the estimated number of orders is   *)
(* at most 200, and the too-many-orders reason is never returned.          *)
C18_TooManyOrdersUnreachable ==
    validation.kind = "done" =>
        /\ validation.result.error_msg # "too many orders"
        /\ (validation.result.is_valid \/ validation.result.error_msg \in RuleOrderCount.reasons)
           => /\ order_range.order_amount > 0
              /\ estimatedOrders <= 200

(* The widest range with the smallest step: 200 estimated orders *)
C18_Witness ==
    /\ Accepted
    /\ priceRange = 20000
    /\ order_range.order_amount = MIN_ORDER_AMOUNT
    /\ estimatedOrders = 200

---------------------------------------------------------------------------
(* The stages of calculate_risk, in the order stated for it *)
StageOrder ==
    <<"all fields present",
      "parse start_price", "parse end_price", "parse order_amount", "parse quantity",
      "parse current_price", "parse loss_cut_rate", "parse loss_cut_width",
      "validate_all_inputs", "calculate_orders", "display_results">>

IsBlank(text) == \A i \in 1..Len(text) : text[i] = " "

(* What the fields hold when the button is clicked *)
FieldMissing == \E name \in DOMAIN line_edits : IsBlank(line_edits[name])

ParsedField(i) == parse_field(FieldNames[i], strip(line_edits[FieldNames[i]]))

UnparsableFields == {i \in 1..Len(FieldNames) : ~ParsedField(i).success}

FirstUnparsable == CHOOSE i \in UnparsableFields : \A j \in UnparsableFields : i <= j

ValidationOfFields ==
    validate_all_inputs(ParsedField(1).value, ParsedField(2).value, ParsedField(3).value,
                        ParsedField(4).value, ParsedField(5).value, ParsedField(6).value,
                        ParsedField(7).value)

InputsPass == ~FieldMissing /\ UnparsableFields = {} /\ ValidationOfFields.is_valid

(* The run a click has just made, read from the new state *)
StagesRun == Len(calls')

RanInOrder == StagesRun >= 1 /\ calls' = SubSeq(StageOrder, 1, StagesRun)

Completed == calls' = StageOrder

C17_Click ==
    /\ RanInOrder
    /\ FieldMissing => StagesRun = 1
    /\ (~FieldMissing /\ UnparsableFields # {}) =>
           /\ StagesRun = 1 + FirstUnparsable
           /\ message_boxes' = <<FieldNames[FirstUnparsable] \o " input error: invalid number">>
    /\ (~FieldMissing /\ UnparsableFields = {} /\ ~ValidationOfFields.is_valid) =>
           /\ StagesRun = 9
           /\ message_boxes' = <<ValidationOfFields.error_msg>>
    /\ StagesRun >= 10 <=> InputsPass
    /\ Completed => message_boxes' = << >>
    /\ ~Completed =>
           /\ Len(message_boxes') = 1
           /\ summary_text' = summary_text
           /\ order_table' = order_table

(* C17: in calculate_risk the stages run strictly in the order             *)
(* all-fields-present check, parsing of the seven inputs in field order,   *)
(* validate_all_inputs, calculate_orders, display_results; the first       *)
(* failure at any stage shows one error and ends the handler, so           *)
(* calculate_orders is invoked only after every parse and the validation   *)
(* succeeded; and on any failure the summary text and the order table are  *)
(* left as they were before the click.                                     *)
C17_HandlerStages == [][CalculateRisk => C17_Click]_vars

(* A click that failed in validation, over the display of an earlier one *)
C17_Witness ==
    /\ Len(calls) = 9
    /\ Len(message_boxes) = 1
    /\ summary_text # << >>
    /\ order_table # << >>

(* A click that failed in parsing the fourth field *)
C17_WitnessParse ==
    /\ Len(calls) = 5
    /\ message_boxes = <<"quantity input error: invalid number">>

(* A click that went through all the stages *)
C17_WitnessCompleted ==
    /\ calls = StageOrder
    /\ message_boxes = << >>
    /\ Len(order_table) = 2
    /\ summary_text[2] = <<"total_orders", <<"{:,}", 2>> >>

(* A click stopped by calculate_orders raising, in the build whose         *)
(* dataclasses declare no order_type                                       *)
C17_WitnessRaised ==
    /\ ~order_type_declared
    /\ Len(calls) = 10
    /\ Len(message_boxes) = 1
    /\ summary_text = << >>

===========================================================================
